---- MODULE Spec2Model ----
(***************************************************************************)
(* Setter discovery of list-setters (listsetters/list_setters.go).         *)
(*                                                                         *)
(* Go strings that the code inspects character by character (comments,     *)
(* patterns, field values, setter names, raw seed values) are sequences of *)
(* one-character strings.  Strings the code only compares as a whole       *)
(* (file paths, warning messages) are TLA+ strings.  Go maps are functions *)
(* with a finite domain; the unspecified iteration order of a Go map is a  *)
(* choice among all orders of its keys.                                    *)
(***************************************************************************)
EXTENDS Integers, Sequences, FiniteSets, TLC

VARIABLES ls, call, out, pattern, value, res

vars == <<ls, call, out, pattern, value, res>>

(***************************************************************************)
(* Bounds of the model.                                                    *)
(***************************************************************************)
\* most pattern pieces of a pattern handed to currentSetterValues
MaxPatPieces == 3
\* most characters of a value handed to currentSetterValues
MaxValLen == 3
\* most calls of Filter on one ListSetters
MaxCalls == 2

(***************************************************************************)
(* Strings                                                                 *)
(***************************************************************************)
EmptyMap == [k \in {} |-> <<>>]

Put(m, k, v) == [x \in (DOMAIN m) \cup {k} |-> IF x = k THEN v ELSE m[x]]

\* byte value of the characters the model uses (Go compares strings bytewise)
Byte(c) ==
    CASE c = "\n" -> 10 [] c = " " -> 32 [] c = "#" -> 35 [] c = "$" -> 36
      [] c = "," -> 44 [] c = "-" -> 45 [] c = "." -> 46 [] c = ":" -> 58
      [] c = "[" -> 91 [] c = "\\" -> 92 [] c = "]" -> 93
      [] c = "a" -> 97 [] c = "b" -> 98 [] c = "e" -> 101 [] c = "k" -> 107
      [] c = "p" -> 112 [] c = "s" -> 115 [] c = "t" -> 116
      [] c = "x" -> 120 [] c = "y" -> 121 [] c = "{" -> 123 [] c = "}" -> 125
      [] OTHER -> 0

\* s < t for Go strings
RECURSIVE Less(_, _)
Less(s, t) ==
    IF t = <<>> THEN FALSE
    ELSE IF s = <<>> THEN TRUE
    ELSE IF Byte(Head(s)) # Byte(Head(t)) THEN Byte(Head(s)) < Byte(Head(t))
    ELSE Less(Tail(s), Tail(t))

HasPrefix(s, p) == Len(s) >= Len(p) /\ SubSeq(s, 1, Len(p)) = p

HasSuffix(s, p) == Len(s) >= Len(p) /\ SubSeq(s, Len(s) - Len(p) + 1, Len(s)) = p

TrimPrefix(s, p) == IF HasPrefix(s, p) THEN SubSeq(s, Len(p) + 1, Len(s)) ELSE s

TrimSuffix(s, p) == IF HasSuffix(s, p) THEN SubSeq(s, 1, Len(s) - Len(p)) ELSE s

IsSpace(c) == c \in {" ", "\n"}

RECURSIVE TrimLeft(_)
TrimLeft(s) == IF s # <<>> /\ IsSpace(Head(s)) THEN TrimLeft(Tail(s)) ELSE s

RECURSIVE TrimRight(_)
TrimRight(s) ==
    IF s # <<>> /\ IsSpace(s[Len(s)]) THEN TrimRight(SubSeq(s, 1, Len(s) - 1)) ELSE s

TrimSpace(s) == TrimRight(TrimLeft(s))

\* strings.ReplaceAll for a non-empty old: leftmost, non-overlapping
RECURSIVE ReplaceAll(_, _, _)
ReplaceAll(s, old, new) ==
    IF Len(s) < Len(old) THEN s
    ELSE IF HasPrefix(s, old)
         THEN new \o ReplaceAll(SubSeq(s, Len(old) + 1, Len(s)), old, new)
         ELSE <<Head(s)>> \o ReplaceAll(Tail(s), old, new)

RECURSIVE Flatten(_)
Flatten(ss) == IF ss = <<>> THEN <<>> ELSE Head(ss) \o Flatten(Tail(ss))

\* all orders in which the keys S of a Go map can be iterated
Orders(S) ==
    {o \in [1..Cardinality(S) -> S] : \A i, j \in 1..Cardinality(S) : o[i] = o[j] => i = j}

(***************************************************************************)
(* Marker parser and pattern resolver                                      *)
(***************************************************************************)
SetterCommentIdentifier == <<"#", " ", "k", "p", "t", "-", "s", "e", "t", ":", " ">>

extractSetterPattern(lineComment) ==
    IF ~HasPrefix(lineComment, SetterCommentIdentifier) THEN <<>>
    ELSE TrimSpace(TrimPrefix(lineComment, SetterCommentIdentifier))

clean(input) == TrimSuffix(TrimPrefix(TrimSpace(input), <<"$", "{">>), <<"}">>)

\* index of the first "}" of s at or after position i, 0 when there is none
FirstClose(s, i) ==
    LET c == {j \in i..Len(s) : s[j] = "}"}
    IN  IF c = {} THEN 0 ELSE CHOOSE j \in c : \A k \in c : j <= k

\* re.FindAllString(pattern, -1) for \$\{([^}]*)\}: leftmost, non-overlapping
RECURSIVE FindAllFrom(_, _)
FindAllFrom(s, i) ==
    IF i + 2 > Len(s) THEN <<>>
    ELSE IF s[i] = "$" /\ s[i + 1] = "{" /\ FirstClose(s, i + 2) # 0
         THEN <<SubSeq(s, i, FirstClose(s, i + 2))>>
                  \o FindAllFrom(s, FirstClose(s, i + 2) + 1)
         ELSE FindAllFrom(s, i + 1)

unresolvedSetters(pat) == FindAllFrom(pat, 1)

RegexpSpecial == {"\\", ".", "+", "*", "?", "(", ")", "|", "[", "]", "{", "}", "^", "$"}

RECURSIVE QuoteMeta(_)
QuoteMeta(s) ==
    IF s = <<>> THEN <<>>
    ELSE (IF Head(s) \in RegexpSpecial THEN <<"\\", Head(s)>> ELSE <<Head(s)>>)
             \o QuoteMeta(Tail(s))

\* the text (?P<x>.*) as one symbol of the regular expression's source
Group == "(?P<x>.*)"

\* the loop of currentSetterValues over urs that rewrites the escaped pattern
RECURSIVE SubstituteGroups(_, _)
SubstituteGroups(quoted, urs) ==
    IF urs = <<>> THEN quoted
    ELSE SubstituteGroups(ReplaceAll(quoted, QuoteMeta(Head(urs)), <<Group>>), Tail(urs))

\* regexp.Compile of that source: a sequence of literals and capture groups,
\* or an error for a backslash with nothing after it
RECURSIVE Compile(_)
Compile(src) ==
    IF src = <<>> THEN [err |-> FALSE, re |-> <<>>]
    ELSE IF Head(src) = "\\"
         THEN IF Len(src) < 2 THEN [err |-> TRUE, re |-> <<>>]
              ELSE LET r == Compile(SubSeq(src, 3, Len(src)))
                   IN  [err |-> r.err, re |-> <<[lit |-> src[2]]>> \o r.re]
         ELSE LET r == Compile(Tail(src))
              IN  [err |-> r.err,
                   re |-> <<IF Head(src) = Group THEN [grp |-> TRUE]
                                                 ELSE [lit |-> Head(src)]>> \o r.re]

\* result of a match: the captured groups, or no match
NoMatch == [ok |-> FALSE, groups |-> <<>>]

Matched(groups) == [ok |-> TRUE, groups |-> groups]

IsGroup(tok) == "grp" \in DOMAIN tok

\* last position a .* starting at pos can reach: "." does not match a newline
RECURSIVE DotRun(_, _)
DotRun(s, pos) ==
    IF pos <= Len(s) /\ s[pos] # "\n" THEN DotRun(s, pos + 1) ELSE pos - 1

\* match re[k..] at s[pos..].  A greedy group takes the longest text that lets
\* the rest of the expression match.
RECURSIVE MatchHere(_, _, _, _)
MatchHere(re, k, s, pos) ==
    IF k > Len(re) THEN Matched(<<>>)
    ELSE IF ~IsGroup(re[k])
         THEN IF pos <= Len(s) /\ s[pos] = re[k].lit
              THEN MatchHere(re, k + 1, s, pos + 1)
              ELSE NoMatch
         ELSE LET ends == {e \in (pos - 1)..DotRun(s, pos) :
                               MatchHere(re, k + 1, s, e + 1).ok}
              IN  IF ends = {} THEN NoMatch
                  ELSE LET e == CHOOSE x \in ends : \A y \in ends : y <= x
                       IN  Matched(<<SubSeq(s, pos, e)>>
                                       \o MatchHere(re, k + 1, s, e + 1).groups)

\* r.FindStringSubmatch(value) without its element 0: the groups of the
\* leftmost match, which may start and end anywhere in the value
FindStringSubmatch(re, s) ==
    LET starts == {p \in 1..(Len(s) + 1) : MatchHere(re, 1, s, p).ok}
    IN  IF starts = {} THEN NoMatch
        ELSE MatchHere(re, 1, s, CHOOSE p \in starts : \A q \in starts : p <= q)

\* a variant of BindFrom that skips an empty captured group and binds the rest
RECURSIVE BindFromSkipEmpty(_, _, _, _)
BindFromSkipEmpty(urs, setterValues, i, m) ==
    IF i > Len(setterValues) THEN m
    ELSE IF setterValues[i] = <<>> THEN BindFromSkipEmpty(urs, setterValues, i + 1, m)
    ELSE BindFromSkipEmpty(urs, setterValues, i + 1, Put(m, clean(urs[i]), setterValues[i]))

\* the final loop of currentSetterValues from index i on, m being res so far
RECURSIVE BindFrom(_, _, _, _)
BindFrom(urs, setterValues, i, m) ==
    IF i > Len(setterValues) THEN m
    ELSE IF setterValues[i] = <<>> THEN EmptyMap
    ELSE BindFrom(urs, setterValues, i + 1, Put(m, clean(urs[i]), setterValues[i]))

\* what currentSetterValues gets from compiling and matching: no match when
\* the expression does not compile
Submatch(pat, val) ==
    LET c == Compile(SubstituteGroups(QuoteMeta(pat), unresolvedSetters(pat)))
    IN  IF c.err THEN NoMatch ELSE FindStringSubmatch(c.re, val)

currentSetterValues(pat, val) ==
    LET urs == unresolvedSetters(pat)
        m   == Submatch(pat, val)
    IN  IF ~m.ok THEN EmptyMap
        ELSE IF Len(urs) # Len(m.groups) THEN EmptyMap
        ELSE BindFrom(urs, m.groups, 1, EmptyMap)

(***************************************************************************)
(* Errors, documents and the Kptfile                                       *)
(***************************************************************************)
NoErr == [kind |-> "nil", message |-> ""]

\* &ErrSetterDiscovery{message}: a recoverable error
ErrSetterDiscovery(message) == [kind |-> "ErrSetterDiscovery", message |-> message]

\* any other error value (fmt.Errorf, errors.WrapPrefixf)
OtherErr(message) == [kind |-> "error", message |-> message]

KptFileName == "Kptfile"

ArraySetterType == "list"

ScalarSetterType == "string"

NoSetters == [present |-> FALSE, m |-> EmptyMap]

Setters(m) == [present |-> TRUE, m |-> m]

\* strings.Contains(fn.Image, "apply-setters"), an image being its parts
IsApplySetters(fn) == \E i \in 1..Len(fn.Image) : fn.Image[i] = "apply-setters"

\* the first node whose path annotation is the Kptfile's, read by kptv1.ReadFile
RECURSIVE FindKptfileFrom(_, _)
FindKptfileFrom(nodes, i) ==
    IF i > Len(nodes)
    THEN [found |-> FALSE, kf |-> <<>>,
          err |-> ErrSetterDiscovery("unable to find Kptfile, please include --include-meta-resources flag if a Kptfile is present")]
    ELSE IF nodes[i].path = KptFileName
         THEN IF nodes[i].readable
              THEN [found |-> TRUE, kf |-> nodes[i].kf, err |-> NoErr]
              ELSE [found |-> FALSE, kf |-> <<>>, err |-> OtherErr("unable to read Kptfile")]
         ELSE FindKptfileFrom(nodes, i + 1)

FindKptfile(nodes) == FindKptfileFrom(nodes, 1)

RECURSIVE findSetterNodeFrom(_, _, _)
findSetterNodeFrom(nodes, path, i) ==
    IF i > Len(nodes)
    THEN [node |-> <<>>, err |-> OtherErr("file doesn't exist, please ensure the file specified in configPath exists and retry")]
    ELSE IF nodes[i].path = path THEN [node |-> nodes[i], err |-> NoErr]
    ELSE findSetterNodeFrom(nodes, path, i + 1)

\* a variant of findSetterNode that reports a missing file as a recoverable error
findSetterNodeRecoverable(nodes, path) ==
    LET r == findSetterNodeFrom(nodes, path, 1)
    IN  IF r.err = NoErr THEN r
        ELSE [node |-> <<>>, err |-> ErrSetterDiscovery(r.err.message)]

findSetterNode(nodes, path) == findSetterNodeFrom(nodes, path, 1)

\* the loop of FindSettersFromKptfile over kf.Pipeline.Mutators
RECURSIVE MutatorsFrom(_, _, _)
MutatorsFrom(nodes, mutators, i) ==
    IF i > Len(mutators)
    THEN [s |-> NoSetters,
          err |-> ErrSetterDiscovery("unable to find apply-setters fn in Kptfile Pipeline.Mutators")]
    ELSE LET fn == mutators[i]
         IN  IF ~IsApplySetters(fn) THEN MutatorsFrom(nodes, mutators, i + 1)
             ELSE IF fn.ConfigMap.present THEN [s |-> fn.ConfigMap, err |-> NoErr]
             ELSE IF fn.ConfigPath # ""
                  THEN LET settersConfig == findSetterNode(nodes, fn.ConfigPath)
                       IN  IF settersConfig.err # NoErr
                           THEN [s |-> NoSetters, err |-> settersConfig.err]
                           ELSE [s |-> Setters(settersConfig.node.data), err |-> NoErr]
                  ELSE [s |-> NoSetters,
                        err |-> ErrSetterDiscovery("unable to find ConfigMap or ConfigPath fnConfig for apply-setters")]

FindSettersFromKptfile(nodes) ==
    LET k == FindKptfile(nodes)
    IN  IF k.err # NoErr THEN [s |-> NoSetters, err |-> k.err]
        ELSE IF ~k.kf.Pipeline.present
             THEN [s |-> NoSetters,
                   err |-> ErrSetterDiscovery("unable to find Pipeline declaration in Kptfile")]
             ELSE MutatorsFrom(nodes, k.kf.Pipeline.Mutators, 1)

(***************************************************************************)
(* Seeding                                                                 *)
(***************************************************************************)
\* the elements of the text between the brackets of a flow sequence
RECURSIVE SplitComma(_, _)
SplitComma(s, cur) ==
    IF s = <<>> THEN <<cur>>
    ELSE IF Head(s) = "," THEN <<cur>> \o SplitComma(Tail(s), <<>>)
    ELSE SplitComma(Tail(s), Append(cur, Head(s)))

RECURSIVE TrimEach(_)
TrimEach(ss) == IF ss = <<>> THEN <<>> ELSE <<TrimSpace(Head(ss))>> \o TrimEach(Tail(ss))

\* yaml.Parse and Elements of a raw setter value, for flow sequences [e1, e2]:
\* the elements in the order written; an error for anything else
getArraySetterValues(sv) ==
    LET t == TrimSpace(sv)
    IN  IF Len(t) >= 2 /\ t[1] = "[" /\ t[Len(t)] = "]"
        THEN LET inner == TrimSpace(SubSeq(t, 2, Len(t) - 1))
             IN  [err |-> FALSE,
                  vals |-> IF inner = <<>> THEN <<>> ELSE TrimEach(SplitComma(inner, <<>>))]
        ELSE [err |-> TRUE, vals |-> <<>>]

\* New()
New == [ScalarSetters |-> EmptyMap, ArraySetters |-> EmptyMap, Warnings |-> <<>>, filePath |-> ""]

\* addKptfileSetters with the map s iterated in the given order of its keys
RECURSIVE addKptfileSettersIn(_, _, _)
addKptfileSettersIn(l, s, order) ==
    IF order = <<>> THEN l
    ELSE LET setterName == Head(order)
             v          == getArraySetterValues(s[setterName])
             l1 == IF ~v.err
                   THEN [l EXCEPT !.ArraySetters =
                            Put(@, setterName, [Name |-> setterName, Values |-> v.vals, Count |-> 0])]
                   ELSE [l EXCEPT !.ScalarSetters =
                            Put(@, setterName, [Name |-> setterName, Value |-> s[setterName], Count |-> 0])]
         IN  addKptfileSettersIn(l1, s, Tail(order))

\* the registries addKptfileSetters can leave, one for each iteration order
addKptfileSetters(l, s) == {addKptfileSettersIn(l, s, o) : o \in Orders(DOMAIN s)}

(***************************************************************************)
(* Visitors                                                                *)
(***************************************************************************)
\* sort.Strings / sort.SliceStable: stable insertion under a strict order
RECURSIVE InsertString(_, _)
InsertString(sorted, e) ==
    IF sorted = <<>> THEN <<e>>
    ELSE IF Less(e, Head(sorted)) THEN <<e>> \o sorted
    ELSE <<Head(sorted)>> \o InsertString(Tail(sorted), e)

RECURSIVE SortStrings(_)
SortStrings(ss) ==
    IF ss = <<>> THEN <<>> ELSE InsertString(SortStrings(SubSeq(ss, 1, Len(ss) - 1)), ss[Len(ss)])

\* a variant of visitMapping that stores a new entry whether or not one exists
visitMappingOverwrite(l, node) ==
    IF node.Value.Kind # "SequenceNode" THEN l
    ELSE LET nodeValues    == SortStrings(node.Value.Elements)
             linecomment   == IF node.Value.Style = "FlowStyle"
                              THEN node.Value.LineComment ELSE node.Key.LineComment
             setterPattern == extractSetterPattern(linecomment)
             setterName    == clean(setterPattern)
         IN  IF setterPattern = <<>> THEN l
             ELSE [l EXCEPT !.ArraySetters =
                      Put(@, setterName, [Name |-> setterName, Values |-> nodeValues, Count |-> 1])]

\* the callback of visitMapping for one field of the mapping
visitMapping(l, node) ==
    IF node.Value.Kind # "SequenceNode" THEN l
    ELSE LET nodeValues    == SortStrings(node.Value.Elements)
             linecomment   == IF node.Value.Style = "FlowStyle"
                              THEN node.Value.LineComment ELSE node.Key.LineComment
             setterPattern == extractSetterPattern(linecomment)
             setterName    == clean(setterPattern)
         IN  IF setterPattern = <<>> THEN l
             ELSE IF setterName \in DOMAIN l.ArraySetters
                  THEN [l EXCEPT !.ArraySetters[setterName].Count = @ + 1]
                  ELSE [l EXCEPT !.ArraySetters =
                           Put(@, setterName, [Name |-> setterName, Values |-> nodeValues, Count |-> 1])]

\* the loop of visitScalar over the bindings m, iterated in the given order
RECURSIVE visitScalarIn(_, _, _)
visitScalarIn(l, m, order) ==
    IF order = <<>> THEN l
    ELSE LET setterName == Head(order)
             l1 == IF setterName \in DOMAIN l.ScalarSetters
                   THEN [l EXCEPT !.ScalarSetters[setterName].Count = @ + 1]
                   ELSE [l EXCEPT !.ScalarSetters =
                            Put(@, setterName, [Name |-> setterName, Value |-> m[setterName], Count |-> 1])]
         IN  visitScalarIn(l1, m, Tail(order))

\* the registries visitScalar can leave, one for each iteration order
visitScalar(l, object) ==
    IF object.Kind # "ScalarNode" THEN {l}
    ELSE LET setterPattern == extractSetterPattern(object.LineComment)
         IN  IF setterPattern = <<>> THEN {l}
             ELSE LET m == currentSetterValues(setterPattern, object.Value)
                  IN  {visitScalarIn(l, m, o) : o \in Orders(DOMAIN m)}

\* the walk of one document (the tree walker, not part of list_setters.go): each
\* field of its mapping goes to visitMapping, then the field's value, when a
\* scalar leaf, to visitScalar.  The elements of a sequence carry no comment
\* of their own in the documents of this model.
RECURSIVE acceptFrom(_, _, _)
acceptFrom(L, fields, j) ==
    IF j > Len(fields) THEN L
    ELSE acceptFrom(UNION {visitScalar(visitMapping(l, fields[j]), fields[j].Value) : l \in L},
                    fields, j + 1)

accept(L, node) == acceptFrom(L, node.fields, 1)

\* the loop of Filter over nodes
RECURSIVE DiscoverFrom(_, _, _)
DiscoverFrom(L, nodes, i) ==
    IF i > Len(nodes) THEN L
    ELSE DiscoverFrom(accept({[l EXCEPT !.filePath = nodes[i].path] : l \in L}, nodes[i]),
                      nodes, i + 1)

\* a variant of Filter that returns once it has recorded a Warning
FilterReturnOnWarning(l, nodes) ==
    LET f == FindSettersFromKptfile(nodes)
    IN  IF f.err.kind = "error" THEN {[ls |-> l, err |-> f.err]}
        ELSE IF f.err.kind = "ErrSetterDiscovery"
             THEN {[ls |-> [l EXCEPT !.Warnings = Append(@, f.err.message)], err |-> NoErr]}
             ELSE LET seeded == IF f.s.present THEN addKptfileSetters(l, f.s.m) ELSE {l}
                  IN  {[ls |-> l2, err |-> NoErr] : l2 \in DiscoverFrom(seeded, nodes, 1)}

\* Filter: the registries and errors one call can end with
Filter(l, nodes) ==
    LET f == FindSettersFromKptfile(nodes)
    IN  IF f.err.kind = "error" THEN {[ls |-> l, err |-> f.err]}
        ELSE LET l1 == IF f.err.kind = "ErrSetterDiscovery"
                       THEN [l EXCEPT !.Warnings = Append(@, f.err.message)]
                       ELSE l
                 seeded == IF f.s.present THEN addKptfileSetters(l1, f.s.m) ELSE {l1}
             IN  {[ls |-> l2, err |-> NoErr] : l2 \in DiscoverFrom(seeded, nodes, 1)}

(***************************************************************************)
(* Results                                                                 *)
(***************************************************************************)
RECURSIVE JoinSpace(_)
JoinSpace(ss) ==
    IF ss = <<>> THEN <<>>
    ELSE IF Len(ss) = 1 THEN Head(ss)
    ELSE Head(ss) \o <<" ">> \o JoinSpace(Tail(ss))

\* fmt.Sprint of a []string
Sprint(vals) == <<"[">> \o JoinSpace(vals) \o <<"]">>

RECURSIVE InsertResult(_, _)
InsertResult(sorted, r) ==
    IF sorted = <<>> THEN <<r>>
    ELSE IF Less(r.Name, Head(sorted).Name) THEN <<r>> \o sorted
    ELSE <<Head(sorted)>> \o InsertResult(Tail(sorted), r)

\* sort.SliceStable(out, by Name)
RECURSIVE SortStableByName(_)
SortStableByName(rs) ==
    IF rs = <<>> THEN <<>>
    ELSE InsertResult(SortStableByName(SubSeq(rs, 1, Len(rs) - 1)), rs[Len(rs)])

\* a variant of GetResultsIn that leaves the list in the order it was built
GetResultsUnsorted(l, arrayOrder, scalarOrder) ==
    [i \in 1..Len(arrayOrder) |->
        LET v == l.ArraySetters[arrayOrder[i]]
        IN  [Name |-> v.Name, Value |-> Sprint(v.Values),
             Count |-> v.Count, Type |-> ArraySetterType]]
    \o [i \in 1..Len(scalarOrder) |->
        LET v == l.ScalarSetters[scalarOrder[i]]
        IN  [Name |-> v.Name, Value |-> v.Value,
             Count |-> v.Count, Type |-> ScalarSetterType]]

\* GetResults with the two maps iterated in the given orders of their keys
GetResultsIn(l, arrayOrder, scalarOrder) ==
    LET arrays  == [i \in 1..Len(arrayOrder) |->
                        LET v == l.ArraySetters[arrayOrder[i]]
                        IN  [Name |-> v.Name, Value |-> Sprint(v.Values),
                             Count |-> v.Count, Type |-> ArraySetterType]]
        scalars == [i \in 1..Len(scalarOrder) |->
                        LET v == l.ScalarSetters[scalarOrder[i]]
                        IN  [Name |-> v.Name, Value |-> v.Value,
                             Count |-> v.Count, Type |-> ScalarSetterType]]
    IN  SortStableByName(arrays \o scalars)

\* the lists GetResults can return
GetResults(l) ==
    {GetResultsIn(l, ao, so) : ao \in Orders(DOMAIN l.ArraySetters),
                               so \in Orders(DOMAIN l.ScalarSetters)}

(***************************************************************************)
(* Inputs of the resolver specification                                    *)
(***************************************************************************)
PatPieces ==
    {<<".">>, <<"a">>, <<"$", "{", "a", "}">>, <<"$", "{", "b", "}">>, <<"$", "{">>, <<"}">>}

Patterns == {Flatten(ps) : ps \in UNION {[1..n -> PatPieces] : n \in 0..MaxPatPieces}}

ValChars == {"a", "b", "."}

Values == UNION {[1..n -> ValChars] : n \in 0..MaxValLen}

NoResult == [done |-> FALSE, m |-> EmptyMap]

(***************************************************************************)
(* Inputs of the discovery specification                                   *)
(***************************************************************************)
Marker(pat) == SetterCommentIdentifier \o pat

PatA == <<"$", "{", "a", "}">>

PatB == <<"$", "{", "b", "}">>

ScalarField(comment, val) ==
    [Key   |-> [LineComment |-> <<>>],
     Value |-> [Kind |-> "ScalarNode", Style |-> "", LineComment |-> comment,
                Value |-> val, Elements |-> <<>>]]

SequenceField(keyComment, style, valueComment, elems) ==
    [Key   |-> [LineComment |-> keyComment],
     Value |-> [Kind |-> "SequenceNode", Style |-> style, LineComment |-> valueComment,
                Value |-> <<>>, Elements |-> elems]]

NoKptfile == [Pipeline |-> [present |-> FALSE, Mutators |-> <<>>]]

Pipeline(mutators) == [Pipeline |-> [present |-> TRUE, Mutators |-> mutators]]

Function(image, configMap, configPath) ==
    [Image |-> image, ConfigMap |-> configMap, ConfigPath |-> configPath]

Resource(path, fields) ==
    [path |-> path, readable |-> TRUE, kf |-> NoKptfile, data |-> EmptyMap, fields |-> fields]

KptfileNode(readable, kf) ==
    [path |-> KptFileName, readable |-> readable, kf |-> kf, data |-> EmptyMap, fields |-> <<>>]

ConfigNode(path, data) ==
    [path |-> path, readable |-> TRUE, kf |-> NoKptfile, data |-> data,
     fields |-> <<ScalarField(<<>>, <<"x">>)>>]

ApplySettersImage == <<"gcr.io/kpt-fn/", "apply-setters", ":v0.1">>

SetLabelsImage == <<"gcr.io/kpt-fn/", "set-labels", ":v0.1">>

SeedScalar == (<<"a">> :> <<"y">>)

SeedMixed == (<<"a">> :> <<"[", "y", ",", " ", "x", "]">>) @@ (<<"b">> :> <<"x">>)

\* the documents that come with the resource document: the Kptfile and, where
\* it is referred to, the setters configuration file
ManifestCases ==
    { <<>>,
      <<KptfileNode(FALSE, NoKptfile)>>,
      <<KptfileNode(TRUE, NoKptfile)>>,
      <<KptfileNode(TRUE, Pipeline(<<Function(SetLabelsImage, NoSetters, "")>>))>>,
      <<KptfileNode(TRUE, Pipeline(<<Function(ApplySettersImage, NoSetters, "")>>))>>,
      <<KptfileNode(TRUE, Pipeline(<<Function(SetLabelsImage, NoSetters, "labels.yaml"),
                                     Function(ApplySettersImage, Setters(SeedScalar), "")>>))>>,
      <<KptfileNode(TRUE, Pipeline(<<Function(ApplySettersImage, Setters(SeedMixed), "")>>))>>,
      <<KptfileNode(TRUE, Pipeline(<<Function(ApplySettersImage, NoSetters, "setters.yaml")>>)),
        ConfigNode("setters.yaml", SeedScalar)>>,
      <<KptfileNode(TRUE, Pipeline(<<Function(ApplySettersImage, NoSetters, "setters.yaml")>>)),
        ConfigNode("other.yaml", SeedScalar)>> }

\* the fields of the resource document
ResourceCases ==
    { <<>>,
      <<ScalarField(Marker(PatA), <<"x">>), ScalarField(Marker(PatA), <<"y">>)>>,
      <<ScalarField(Marker(PatA \o <<".">> \o PatB), <<"x", ".", "y">>),
        ScalarField(Marker(PatB), <<"y">>)>>,
      <<ScalarField(Marker(<<"a">>), <<"x">>)>>,
      <<SequenceField(Marker(PatA), "", <<>>, <<<<"y">>, <<"x">>>>),
        SequenceField(<<>>, "FlowStyle", Marker(<<"b">>), <<<<"x">>>>)>>,
      <<ScalarField(Marker(PatA), <<"x">>),
        SequenceField(Marker(PatA), "", <<>>, <<<<"y">>, <<"x">>>>)>>,
      <<SequenceField(Marker(PatA), "", <<>>, <<<<"y">>, <<"x">>>>),
        SequenceField(Marker(PatA), "", <<>>, <<<<"x">>, <<"y">>>>),
        ScalarField(<<"#", " ", "x">>, <<"x">>)>> }

NodeSets == {m \o <<Resource("deploy.yaml", f)>> : m \in ManifestCases, f \in ResourceCases}

(***************************************************************************)
(* The discovery specification: calls of Filter and GetResults on one      *)
(* ListSetters.  call records the last call of Filter: how many calls      *)
(* there were, its argument, the ListSetters before it and the error it    *)
(* returned.  out is what the last GetResults since then returned.         *)
(***************************************************************************)
NoCall == [n |-> 0, nodes |-> <<>>, pre |-> New, err |-> NoErr]

NoOut == [valid |-> FALSE, results |-> <<>>]

Init ==
    /\ ls = New
    /\ call = NoCall
    /\ out = NoOut
    /\ pattern = <<>>
    /\ value = <<>>
    /\ res = NoResult

FilterCall ==
    /\ call.n < MaxCalls
    /\ \E nodes \in NodeSets : \E o \in Filter(ls, nodes) :
          /\ ls' = o.ls
          /\ call' = [n |-> call.n + 1, nodes |-> nodes, pre |-> ls, err |-> o.err]
    /\ out' = NoOut
    /\ UNCHANGED <<pattern, value, res>>

GetResultsCall ==
    /\ \E r \in GetResults(ls) : out' = [valid |-> TRUE, results |-> r]
    /\ UNCHANGED <<ls, call, pattern, value, res>>

Next == FilterCall \/ GetResultsCall

Spec == Init /\ [][Next]_vars

(***************************************************************************)
(* The resolver specification: currentSetterValues on every pattern and    *)
(* value within the bounds.                                                *)
(***************************************************************************)
InitResolve ==
    /\ ls = New
    /\ call = NoCall
    /\ out = NoOut
    /\ pattern \in Patterns
    /\ value \in Values
    /\ res = NoResult

Resolve ==
    /\ ~res.done
    /\ res' = [done |-> TRUE, m |-> currentSetterValues(pattern, value)]
    /\ UNCHANGED <<ls, call, out, pattern, value>>

NextResolve == Resolve

SpecResolve == InitResolve /\ [][NextResolve]_vars

(***************************************************************************)
(* What the claims speak of, stated over the documents of a call           *)
(***************************************************************************)
\* the positions <<document, field>> of all fields of a document set
FieldsOf(nodes) ==
    UNION {{<<i, j>> : j \in 1..Len(nodes[i].fields)} : i \in 1..Len(nodes)}

FieldAt(nodes, p) == nodes[p[1]].fields[p[2]]

\* the marker pattern of a scalar field, empty when it has none
ScalarMarker(f) ==
    IF f.Value.Kind = "ScalarNode" THEN extractSetterPattern(f.Value.LineComment) ELSE <<>>

\* the marker pattern of a sequence-valued field, empty when it has none
ArrayMarker(f) ==
    IF f.Value.Kind # "SequenceNode" THEN <<>>
    ELSE IF f.Value.Style = "FlowStyle" THEN extractSetterPattern(f.Value.LineComment)
    ELSE extractSetterPattern(f.Key.LineComment)

\* the scalar fields whose marker pattern resolved to a binding for name
ScalarHits(nodes, name) ==
    {p \in FieldsOf(nodes) :
        /\ ScalarMarker(FieldAt(nodes, p)) # <<>>
        /\ name \in DOMAIN currentSetterValues(ScalarMarker(FieldAt(nodes, p)),
                                               FieldAt(nodes, p).Value.Value)}

\* the sequence-valued fields whose marker names name
ArrayHits(nodes, name) ==
    {p \in FieldsOf(nodes) :
        /\ ArrayMarker(FieldAt(nodes, p)) # <<>>
        /\ clean(ArrayMarker(FieldAt(nodes, p))) = name}

\* the names the fields of a document set can register
FieldNames(nodes) ==
    UNION {(IF ScalarMarker(FieldAt(nodes, p)) = <<>> THEN {}
            ELSE DOMAIN currentSetterValues(ScalarMarker(FieldAt(nodes, p)),
                                            FieldAt(nodes, p).Value.Value))
           \cup (IF ArrayMarker(FieldAt(nodes, p)) = <<>> THEN {}
                 ELSE {clean(ArrayMarker(FieldAt(nodes, p)))}) : p \in FieldsOf(nodes)}

CountIn(m, name) == IF name \in DOMAIN m THEN m[name].Count ELSE 0

KptfilePositions(nodes) == {i \in 1..Len(nodes) : nodes[i].path = KptFileName}

TheKptfile(nodes) ==
    nodes[CHOOSE i \in KptfilePositions(nodes) : \A k \in KptfilePositions(nodes) : i <= k]

ApplySettersStages(kf) ==
    {i \in 1..Len(kf.Pipeline.Mutators) : IsApplySetters(kf.Pipeline.Mutators[i])}

TheApplySettersStage(kf) ==
    kf.Pipeline.Mutators[CHOOSE i \in ApplySettersStages(kf) :
                             \A k \in ApplySettersStages(kf) : i <= k]

HasApplySettersStage(nodes) ==
    /\ KptfilePositions(nodes) # {}
    /\ TheKptfile(nodes).readable
    /\ TheKptfile(nodes).kf.Pipeline.present
    /\ ApplySettersStages(TheKptfile(nodes).kf) # {}

\* no Kptfile, no pipeline, no apply-setters mutator, or neither configuration
RecoverableIssue(nodes) ==
    \/ KptfilePositions(nodes) = {}
    \/ /\ TheKptfile(nodes).readable
       /\ \/ ~TheKptfile(nodes).kf.Pipeline.present
          \/ ApplySettersStages(TheKptfile(nodes).kf) = {}
          \/ /\ ~TheApplySettersStage(TheKptfile(nodes).kf).ConfigMap.present
             /\ TheApplySettersStage(TheKptfile(nodes).kf).ConfigPath = ""

\* the stage has no configMap and its configPath is the path of no document
MissingConfigFile(nodes) ==
    /\ HasApplySettersStage(nodes)
    /\ ~TheApplySettersStage(TheKptfile(nodes).kf).ConfigMap.present
    /\ TheApplySettersStage(TheKptfile(nodes).kf).ConfigPath # ""
    /\ \A i \in 1..Len(nodes) :
          nodes[i].path # TheApplySettersStage(TheKptfile(nodes).kf).ConfigPath

\* the last call of Filter was made on a ListSetters as New() returns it
FreshPass == call.n >= 1 /\ call.pre = New

IsSorted(ss) == \A i, j \in 1..Len(ss) : i < j => ~Less(ss[j], ss[i])

\* pattern with every ${name} replaced by the value bound to name
RECURSIVE SubstituteBindings(_, _, _)
SubstituteBindings(pat, m, names) ==
    IF names = {} THEN pat
    ELSE LET name == CHOOSE x \in names : TRUE
         IN  SubstituteBindings(ReplaceAll(pat, <<"$", "{">> \o name \o <<"}">>, m[name]),
                                m, names \ {name})

(***************************************************************************)
(* Claims                                                                  *)
(***************************************************************************)
\* C1: no setter name is a key of both ScalarSetters and ArraySetters.
C1_NoNameOfBothKinds ==
    (DOMAIN ls.ScalarSetters) \cap (DOMAIN ls.ArraySetters) = {}

\* C2: once a setter has an entry, no later operation on the same ListSetters
\* removes it, changes its stored Value/Values or lowers its Count.
C2_EntriesOnlyGrow ==
    [][/\ \A n \in DOMAIN ls.ScalarSetters :
             /\ n \in DOMAIN ls'.ScalarSetters
             /\ ls'.ScalarSetters[n].Value = ls.ScalarSetters[n].Value
             /\ ls'.ScalarSetters[n].Count >= ls.ScalarSetters[n].Count
       /\ \A n \in DOMAIN ls.ArraySetters :
             /\ n \in DOMAIN ls'.ArraySetters
             /\ ls'.ArraySetters[n].Values = ls.ArraySetters[n].Values
             /\ ls'.ArraySetters[n].Count >= ls.ArraySetters[n].Count]_vars

\* C3: after one Filter pass on a fresh ListSetters that returned no error, the
\* scalar setters are the seeded scalar names and the names some scalar field
\* resolved to, each with Count = the number of such fields (a field counting
\* once); the array setters are the seeded array names and the names some
\* sequence-valued field's marker names, each with Count = the number of such
\* fields.  A seeded name no field carries has Count 0.
C3_CountIsNumberOfFields ==
    (FreshPass /\ call.err = NoErr) =>
        LET seeds == FindSettersFromKptfile(call.nodes).s.m
            seededArrays == {n \in DOMAIN seeds : ~getArraySetterValues(seeds[n]).err}
            names == FieldNames(call.nodes) \cup DOMAIN seeds
        IN  /\ DOMAIN ls.ScalarSetters =
                   {n \in names : ScalarHits(call.nodes, n) # {}}
                       \cup ((DOMAIN seeds) \ seededArrays)
            /\ DOMAIN ls.ArraySetters =
                   {n \in names : ArrayHits(call.nodes, n) # {}} \cup seededArrays
            /\ \A n \in DOMAIN ls.ScalarSetters :
                   ls.ScalarSetters[n].Count = Cardinality(ScalarHits(call.nodes, n))
            /\ \A n \in DOMAIN ls.ArraySetters :
                   ls.ArraySetters[n].Count = Cardinality(ArrayHits(call.nodes, n))

\* C3 witness: a fresh pass in which two fields carry one name (Count 2) and a
\* seeded name is carried by no field of its kind (Count 0)
C3_Witness ==
    /\ FreshPass /\ call.err = NoErr
    /\ \E n \in DOMAIN ls.ArraySetters : ls.ArraySetters[n].Count = 2
    /\ \E n \in DOMAIN ls.ScalarSetters : ls.ScalarSetters[n].Count = 0

\* C4: when currentSetterValues returns a non-empty mapping, putting the bound
\* values back into the pattern gives the value.
C4_RoundTrip ==
    (res.done /\ res.m # EmptyMap) =>
        SubstituteBindings(pattern, res.m, DOMAIN res.m) = value

\* C5: after a Filter call without error, every scalar field whose marker
\* pattern has no ${...} placeholder has its pattern as a scalar setter, Count
\* at least 1.
C5_PlainPatternIsSetterName ==
    (call.n >= 1 /\ call.err = NoErr) =>
        \A p \in FieldsOf(call.nodes) :
            LET pat == ScalarMarker(FieldAt(call.nodes, p))
            IN  (pat # <<>> /\ unresolvedSetters(pat) = <<>>) =>
                    /\ clean(pat) \in DOMAIN ls.ScalarSetters
                    /\ ls.ScalarSetters[clean(pat)].Count >= 1

\* C6: a Filter call on documents with a recoverable manifest issue returns no
\* error, appends exactly one Warning, and changes the registry only by what the
\* fields' markers give: no name enters it without a field, and every Count
\* grows by the number of fields carrying the name.
C6_RecoverableIssueIsOneWarning ==
    (call.n >= 1 /\ RecoverableIssue(call.nodes)) =>
        /\ call.err = NoErr
        /\ Len(ls.Warnings) = Len(call.pre.Warnings) + 1
        /\ SubSeq(ls.Warnings, 1, Len(call.pre.Warnings)) = call.pre.Warnings
        /\ DOMAIN ls.ScalarSetters =
               (DOMAIN call.pre.ScalarSetters)
                   \cup {n \in FieldNames(call.nodes) : ScalarHits(call.nodes, n) # {}}
        /\ DOMAIN ls.ArraySetters =
               (DOMAIN call.pre.ArraySetters)
                   \cup {n \in FieldNames(call.nodes) : ArrayHits(call.nodes, n) # {}}
        /\ \A n \in DOMAIN ls.ScalarSetters :
               ls.ScalarSetters[n].Count =
                   CountIn(call.pre.ScalarSetters, n) + Cardinality(ScalarHits(call.nodes, n))
        /\ \A n \in DOMAIN ls.ArraySetters :
               ls.ArraySetters[n].Count =
                   CountIn(call.pre.ArraySetters, n) + Cardinality(ArrayHits(call.nodes, n))
        /\ ls.filePath = call.nodes[Len(call.nodes)].path

\* C6 witness: a call with a Kptfile that has a pipeline but no apply-setters
\* mutator, whose documents still registered a setter
C6_Witness ==
    /\ call.n >= 1
    /\ KptfilePositions(call.nodes) # {}
    /\ TheKptfile(call.nodes).kf.Pipeline.present
    /\ ApplySettersStages(TheKptfile(call.nodes).kf) = {}
    /\ Len(ls.Warnings) = Len(call.pre.Warnings) + 1
    /\ \E n \in DOMAIN ls.ScalarSetters : n \notin DOMAIN call.pre.ScalarSetters

\* C7: when the apply-setters stage has no configMap and its configPath names
\* no document, Filter returns an error that is no Warning and leaves the
\* ListSetters as it was before the call.
C7_MissingConfigFileAborts ==
    (call.n >= 1 /\ MissingConfigFile(call.nodes)) =>
        /\ call.err.kind = "error"
        /\ ls = call.pre

\* C7 witness: such a call on a ListSetters that already held setters, with
\* documents whose fields carry markers
C7_Witness ==
    /\ call.n >= 2
    /\ MissingConfigFile(call.nodes)
    /\ call.err.kind = "error"
    /\ DOMAIN call.pre.ScalarSetters # {}
    /\ FieldNames(call.nodes) # {}

\* C8: what GetResults returned after a Filter pass on a fresh ListSetters is
\* the only list any such pass over the same documents can give, whatever the
\* iteration orders of the maps, and it is in ascending order of name.
C8_Deterministic ==
    (out.valid /\ FreshPass) =>
        /\ \A o \in Filter(New, call.nodes) : \A r \in GetResults(o.ls) : r = out.results
        /\ \A i, j \in 1..Len(out.results) :
               i < j => ~Less(out.results[j].Name, out.results[i].Name)

\* C8 witness: results of a fresh pass that left one name in both maps and a
\* second name beside it
C8_Witness ==
    /\ out.valid /\ FreshPass
    /\ (DOMAIN ls.ScalarSetters) \cap (DOMAIN ls.ArraySetters) # {}
    /\ Cardinality(DOMAIN ls.ScalarSetters) >= 2
    /\ Len(out.results) >= 3

\* C9: every array setter stores its Values in sorted order.
C9_ArrayValuesSorted ==
    \A n \in DOMAIN ls.ArraySetters : IsSorted(ls.ArraySetters[n].Values)

\* C10: currentSetterValues binds no name to the empty string, and returns the
\* empty mapping whenever the match captured the empty string for a placeholder.
C10_NoPartialBinding ==
    res.done =>
        /\ \A n \in DOMAIN res.m : res.m[n] # <<>>
        /\ (/\ Submatch(pattern, value).ok
            /\ \E i \in 1..Len(Submatch(pattern, value).groups) :
                   Submatch(pattern, value).groups[i] = <<>>)
               => res.m = EmptyMap

\* C10 witness: a match that captured text for one placeholder and the empty
\* string for another, answered by the empty mapping
C10_Witness ==
    /\ res.done
    /\ Submatch(pattern, value).ok
    /\ \E i, j \in 1..Len(Submatch(pattern, value).groups) :
           /\ Submatch(pattern, value).groups[i] = <<>>
           /\ Submatch(pattern, value).groups[j] # <<>>
    /\ res.m = EmptyMap

====
